---- MODULE Spec2Model ----
(***************************************************************************)
(* Model of the truemeter-api scoring service: the ModelManager registry   *)
(* (app/model_loader.py), the FraudDetectionService pipeline               *)
(* (app/prediction_service.py) and the FastAPI boundary (app/main.py).     *)
(*                                                                         *)
(* Number representation.  Probabilities and thresholds are floats in the  *)
(* source; here they are integers in per-mille (0.5 is 500).  smart_ratio  *)
(* is the exact fraction reported_km / max(1, expected_km), kept as a      *)
(* record [num, den].  On the values enumerated below the exact arithmetic *)
(* agrees with CPython's float arithmetic (round() is round-half-to-even,  *)
(* int() truncates toward zero).                                           *)
(*                                                                         *)
(* Scheduling.  model_manager is a module-level singleton with no lock;    *)
(* load_models assigns its three fields in three separate statements and   *)
(* the handlers read them whenever they are scheduled.  The model keeps    *)
(* that granularity: one action per assignment of load_models, and a       *)
(* handler split at its reads of the registry.  lifespan calls            *)
(* load_models once, synchronously, before serving; the registry itself    *)
(* does not enforce that order, so a handler step may fall between two     *)
(* steps of load_models whenever the load runs on another thread.          *)
(***************************************************************************)
EXTENDS Integers, Sequences, FiniteSets

VARIABLES regressor_model, classifier_model, fraud_threshold,
          loadPc, classifier_dict, loadResult,
          hPc, hThreshold, hArrival, hInput, last

vars == <<regressor_model, classifier_model, fraud_threshold,
          loadPc, classifier_dict, loadResult,
          hPc, hThreshold, hArrival, hInput, last>>

registry == <<regressor_model, classifier_model, fraud_threshold>>

----------------------------------------------------------------------------
(* Bounds and program constants *)

NumHandlers == 1

Handlers == 1..NumHandlers

None == "None"

DEFAULT_FRAUD_THRESHOLD == 500

SUSPICIOUS_RATIO_THRESHOLD == 70

MARKET_DIFF_THRESHOLD == -30000

SCORE_MIN == 0

SCORE_MAX == 100

EXPECTED_KM_MIN == 0

(* Classifier bundles that joblib.load(CLASSIFIER_PATH) can return: a dict *)
(* with or without 'pipeline', with or without 'threshold'.                *)
(* has_threshold says whether the dict has a 'threshold' key.               *)
Bundles ==
  [has_pipeline : BOOLEAN, has_threshold : {TRUE}, threshold : {300, 700}]
    \cup [has_pipeline : BOOLEAN, has_threshold : {FALSE}, threshold : {0}]

NoBundle == [has_pipeline |-> FALSE, has_threshold |-> FALSE, threshold |-> 0]

(* Outcomes of the two joblib.load calls that are not a value. *)
LoadErrors == {"FileNotFoundError", "Exception"}

(* car.reported_km (ge=0) *)
ReportedKms == {0, 40000, 92000, 105000}

(* int(np.expm1(predicted_log)) for the regressor's answers, including a   *)
(* negative one and zero.                                                  *)
ExpectedKms == {-1, 0, 95000, 150000}

(* class_model.predict_proba(...)[0, 1] in per-mille, including values     *)
(* outside [0, 1] and the two thresholds in use.                           *)
Probs == {-200, 5, 15, 300, 500, 700, 1004, 1200}

(* car.year (ge=1900, le=2100) *)
Years == {1900, 2026, 2100}

(* pd.Timestamp.now().year when the request is served; only its distance   *)
(* to car.year matters, and Years lies before, on and after it.            *)
CurrentYears == {2026}

(* A model call either answers or raises. *)
ModelErrors == {"ValueError", "Exception"}

RegOutcomes ==
  [err : {"none"}, km : ExpectedKms] \cup [err : ModelErrors, km : {0}]

ClsOutcomes ==
  [err : {"none"}, prob : Probs] \cup [err : ModelErrors, prob : {0}]

----------------------------------------------------------------------------
(* ModelManager *)

are_models_loaded_RegressorOnly(reg, cls) == reg # None

are_models_loaded(reg, cls) == reg # None /\ cls # None

get_threshold(thr) == thr

BundleThreshold_NoOverride(d) == DEFAULT_FRAUD_THRESHOLD

(* classifier_dict.get('threshold', DEFAULT_FRAUD_THRESHOLD) *)
BundleThreshold(d) ==
  IF d.has_threshold THEN d.threshold ELSE DEFAULT_FRAUD_THRESHOLD

LoadExcept_OnlyFileNotFound(exc) ==
  IF exc = "FileNotFoundError"
    THEN [pc |-> "returned", success |-> FALSE, message |-> "Model file not found"]
    ELSE [pc |-> "raised", success |-> FALSE, message |-> "none"]

(* The two except clauses of load_models: every exception raised in the    *)
(* try block is turned into a returned (False, message).                   *)
LoadExcept(exc) ==
  IF exc = "FileNotFoundError"
    THEN [pc |-> "returned", success |-> FALSE, message |-> "Model file not found"]
    ELSE [pc |-> "returned", success |-> FALSE, message |-> "Error loading models"]

NoLoadResult == [pc |-> "running", success |-> FALSE, message |-> "none"]

----------------------------------------------------------------------------
(* FraudDetectionService: pure parts *)

Max(a, b) == IF a >= b THEN a ELSE b

Abs(a) == IF a < 0 THEN -a ELSE a

(* int(x) of the float num/den * 100: truncation toward zero. *)
TruncDiv(n, d) == IF n >= 0 THEN n \div d ELSE -((-n) \div d)

(* int(round(fraud_prob * 100)): Python 3 round() is round-half-to-even.   *)
RoundScore(pm) ==
  LET q == pm \div 10
      r == pm % 10
  IN  IF r < 5 THEN q
      ELSE IF r > 5 THEN q + 1
      ELSE IF q % 2 = 0 THEN q ELSE q + 1

DerivedAge_Unfloored(current_year, year) == current_year - year

(* age = max(1, current_year - car.year) *)
DerivedAge(current_year, year) == Max(1, current_year - year)

(* The age columns of reg_input and class_input; both frames are built     *)
(* from the one local age.                                                 *)
AgeInputs(current_year, year) ==
  LET age == DerivedAge(current_year, year)
  IN  [year |-> year, reg_age |-> age, age_squared |-> age * age, cls_age |-> age]

NoInput == [year |-> 0, reg_age |-> 0, age_squared |-> 0, cls_age |-> 0]

SmartRatio(reported_km, expected_km) ==
  [num |-> reported_km, den |-> Max(1, expected_km)]

MarketKmDiff(reported_km, expected_km) == reported_km - expected_km

(* smart_ratio < SUSPICIOUS_RATIO_THRESHOLD *)
RatioRule(smart_ratio) ==
  smart_ratio.num * 100 < SUSPICIOUS_RATIO_THRESHOLD * smart_ratio.den

(* market_km_diff < MARKET_DIFF_THRESHOLD *)
DiffRule(market_km_diff) == market_km_diff < MARKET_DIFF_THRESHOLD

(* percentage = int(smart_ratio * 100) *)
Percentage(smart_ratio) == TruncDiv(smart_ratio.num * 100, smart_ratio.den)

RatioReason(smart_ratio, expected_km) ==
  [kind |-> "ratio", value |-> Percentage(smart_ratio), expected_km |-> expected_km]

MarketReason(market_km_diff) ==
  [kind |-> "market", value |-> Abs(market_km_diff), expected_km |-> 0]

GenericReason == [kind |-> "generic", value |-> 0, expected_km |-> 0]

generate_reasons_NoGeneric(smart_ratio, market_km_diff, expected_km, is_suspicious) ==
  LET r1 == IF RatioRule(smart_ratio)
              THEN <<RatioReason(smart_ratio, expected_km)>> ELSE <<>>
  IN  IF DiffRule(market_km_diff)
        THEN r1 \o <<MarketReason(market_km_diff)>> ELSE r1

generate_reasons_MarketFirst(smart_ratio, market_km_diff, expected_km, is_suspicious) ==
  LET r1 == IF DiffRule(market_km_diff)
              THEN <<MarketReason(market_km_diff)>> ELSE <<>>
      r2 == IF RatioRule(smart_ratio)
              THEN r1 \o <<RatioReason(smart_ratio, expected_km)>> ELSE r1
  IN  IF r2 = <<>> /\ is_suspicious THEN <<GenericReason>> ELSE r2

generate_reasons_AlwaysGeneric(smart_ratio, market_km_diff, expected_km, is_suspicious) ==
  LET r1 == IF RatioRule(smart_ratio)
              THEN <<RatioReason(smart_ratio, expected_km)>> ELSE <<>>
      r2 == IF DiffRule(market_km_diff)
              THEN r1 \o <<MarketReason(market_km_diff)>> ELSE r1
  IN  IF r2 = <<>> THEN <<GenericReason>> ELSE r2

generate_reasons(smart_ratio, market_km_diff, expected_km, is_suspicious) ==
  LET r1 == IF RatioRule(smart_ratio)
              THEN <<RatioReason(smart_ratio, expected_km)>> ELSE <<>>
      r2 == IF DiffRule(market_km_diff)
              THEN r1 \o <<MarketReason(market_km_diff)>> ELSE r1
  IN  IF r2 = <<>> /\ is_suspicious THEN <<GenericReason>> ELSE r2

IsSuspicious_Strict(fraud_prob, threshold) == fraud_prob > threshold

IsSuspicious(fraud_prob, threshold) == fraud_prob >= threshold

ResponseValid_ScoreOnly(fraud_score, expected_km) ==
  /\ fraud_score >= SCORE_MIN
  /\ fraud_score <= SCORE_MAX

(* Field constraints of FraudCheckResponse (ge=0, le=100; ge=0). *)
ResponseValid(fraud_score, expected_km) ==
  /\ fraud_score >= SCORE_MIN
  /\ fraud_score <= SCORE_MAX
  /\ expected_km >= EXPECTED_KM_MIN

----------------------------------------------------------------------------
(* check_fraud, from the regression step to the validated response.        *)
(* reg and cls are what the two model calls do for this request.           *)

NoBody ==
  [fraud_score |-> 0, is_suspicious |-> FALSE, expected_km |-> 0, reasons |-> <<>>]

check_fraud_SwallowsClassifierError(reported_km, threshold, reg, cls) ==
  LET expected_km    == reg.km
      smart_ratio    == SmartRatio(reported_km, expected_km)
      market_km_diff == MarketKmDiff(reported_km, expected_km)
      reasons        == generate_reasons(smart_ratio, market_km_diff,
                                         expected_km, FALSE)
  IN  IF reg.err # "none"
        THEN [raised |-> reg.err, reg_invoked |-> TRUE, cls_invoked |-> FALSE,
              body |-> NoBody]
      ELSE IF ~ResponseValid(0, expected_km)
        THEN [raised |-> "ValueError", reg_invoked |-> TRUE, cls_invoked |-> TRUE,
              body |-> NoBody]
      ELSE [raised |-> "none", reg_invoked |-> TRUE, cls_invoked |-> TRUE,
            body |-> [fraud_score |-> 0, is_suspicious |-> FALSE,
                      expected_km |-> expected_km, reasons |-> reasons]]

check_fraud(reported_km, threshold, reg, cls) ==
  LET expected_km    == reg.km
      smart_ratio    == SmartRatio(reported_km, expected_km)
      market_km_diff == MarketKmDiff(reported_km, expected_km)
      fraud_prob     == cls.prob
      fraud_score    == RoundScore(fraud_prob)
      is_suspicious  == IsSuspicious(fraud_prob, threshold)
      reasons        == generate_reasons(smart_ratio, market_km_diff,
                                         expected_km, is_suspicious)
  IN  IF reg.err # "none"
        THEN [raised |-> reg.err, reg_invoked |-> TRUE, cls_invoked |-> FALSE,
              body |-> NoBody]
      ELSE IF cls.err # "none"
        THEN [raised |-> cls.err, reg_invoked |-> TRUE, cls_invoked |-> TRUE,
              body |-> NoBody]
      ELSE IF ~ResponseValid(fraud_score, expected_km)
        THEN [raised |-> "ValueError", reg_invoked |-> TRUE, cls_invoked |-> TRUE,
              body |-> NoBody]
      ELSE [raised |-> "none", reg_invoked |-> TRUE, cls_invoked |-> TRUE,
            body |-> [fraud_score |-> fraud_score, is_suspicious |-> is_suspicious,
                      expected_km |-> expected_km, reasons |-> reasons]]

(* check_car's mapping of check_fraud's outcome to an HTTP status. *)
StatusOf(raised) ==
  IF raised = "none" THEN 200
  ELSE IF raised = "ValueError" THEN 400
  ELSE 500

(* The response the boundary emits, with the inputs that produced it.      *)
(* The variable last holds the response emitted by the step just taken,    *)
(* and NoResponse after a step that emits none.                            *)
Response(status, arrival, reported_km, reg, cls, threshold, out) ==
  [kind |-> "check", status |-> status, has_result |-> (status = 200),
   body |-> out.body, models_loaded |-> arrival.ready,
   early |-> arrival.early, ready_at_arrival |-> arrival.ready,
   reported_km |-> reported_km, reg |-> reg, cls |-> cls,
   threshold |-> threshold,
   reg_invoked |-> out.reg_invoked, cls_invoked |-> out.cls_invoked]

(* What the registry held, and whether load_models had returned, when a    *)
(* request reached check_car.                                              *)
Arrival(early, ready) == [early |-> early, ready |-> ready]

NoArrival == Arrival(FALSE, FALSE)

NoReg == [err |-> "none", km |-> 0]

NoCls == [err |-> "none", prob |-> 0]

NotInvoked ==
  [raised |-> "none", reg_invoked |-> FALSE, cls_invoked |-> FALSE, body |-> NoBody]

NoResponse ==
  [Response(0, NoArrival, 0, NoReg, NoCls, 0, NotInvoked) EXCEPT !.kind = "none"]

(* HealthCheckResponse: status "healthy" or "initializing", models_loaded. *)
HealthResponse(models_loaded) ==
  [NoResponse EXCEPT !.kind = "health", !.status = 200,
                     !.models_loaded = models_loaded]

----------------------------------------------------------------------------
(* Initial state: ModelManager.__init__, nothing served yet. *)

Init ==
  /\ regressor_model = None
  /\ classifier_model = None
  /\ fraud_threshold = DEFAULT_FRAUD_THRESHOLD
  /\ loadPc = "L42"
  /\ classifier_dict = NoBundle
  /\ loadResult = NoLoadResult
  /\ hPc = [h \in Handlers |-> "idle"]
  /\ hThreshold = [h \in Handlers |-> 0]
  /\ hArrival = [h \in Handlers |-> NoArrival]
  /\ hInput = [h \in Handlers |-> NoInput]
  /\ last = NoResponse

----------------------------------------------------------------------------
(* load_models, called once by lifespan at startup *)

LoadFails(exc) ==
  /\ loadResult' = LoadExcept(exc)
  /\ loadPc' = LoadExcept(exc).pc

LoadRegressor_Reload ==
  /\ loadPc \in {"L42", "returned"}
  /\ \/ /\ regressor_model' = "regressor"
        /\ loadPc' = "L46"
        /\ UNCHANGED loadResult
     \/ /\ \E exc \in LoadErrors : LoadFails(exc)
        /\ UNCHANGED regressor_model
  /\ UNCHANGED <<classifier_model, fraud_threshold, classifier_dict,
                 hPc, hThreshold, hArrival, hInput>>
  /\ last' = NoResponse

(* self.regressor_model = joblib.load(REGRESSOR_PATH) *)
LoadRegressor ==
  /\ loadPc = "L42"
  /\ \/ /\ regressor_model' = "regressor"
        /\ loadPc' = "L46"
        /\ UNCHANGED loadResult
     \/ /\ \E exc \in LoadErrors : LoadFails(exc)
        /\ UNCHANGED regressor_model
  /\ UNCHANGED <<classifier_model, fraud_threshold, classifier_dict,
                 hPc, hThreshold, hArrival, hInput>>
  /\ last' = NoResponse

(* classifier_dict = joblib.load(CLASSIFIER_PATH) *)
LoadClassifier ==
  /\ loadPc = "L46"
  /\ \/ /\ \E d \in Bundles : classifier_dict' = d
        /\ loadPc' = "L49"
        /\ UNCHANGED loadResult
     \/ /\ \E exc \in LoadErrors : LoadFails(exc)
        /\ UNCHANGED classifier_dict
  /\ UNCHANGED <<regressor_model, classifier_model, fraud_threshold,
                 hPc, hThreshold, hArrival, hInput>>
  /\ last' = NoResponse

(* self.classifier_model = classifier_dict['pipeline'] *)
ExtractPipeline ==
  /\ loadPc = "L49"
  /\ IF classifier_dict.has_pipeline
       THEN /\ classifier_model' = "pipeline"
            /\ loadPc' = "L50"
            /\ UNCHANGED loadResult
       ELSE /\ LoadFails("KeyError")
            /\ UNCHANGED classifier_model
  /\ UNCHANGED <<regressor_model, fraud_threshold, classifier_dict,
                 hPc, hThreshold, hArrival, hInput>>
  /\ last' = NoResponse

(* self.fraud_threshold = classifier_dict.get('threshold', DEFAULT);       *)
(* return True, success_msg                                                *)
SetThreshold ==
  /\ loadPc = "L50"
  /\ fraud_threshold' = BundleThreshold(classifier_dict)
  /\ loadPc' = "returned"
  /\ loadResult' = [pc |-> "returned", success |-> TRUE,
                    message |-> "Models loaded successfully"]
  /\ UNCHANGED <<regressor_model, classifier_model, classifier_dict,
                 hPc, hThreshold, hArrival, hInput>>
  /\ last' = NoResponse

----------------------------------------------------------------------------
(* Handlers *)

(* GET /health *)
health_check ==
  /\ last' = HealthResponse(are_models_loaded(regressor_model, classifier_model))
  /\ UNCHANGED <<regressor_model, classifier_model, fraud_threshold,
                 loadPc, classifier_dict, loadResult,
                 hPc, hThreshold, hArrival, hInput>>

(* POST /api/check, the readiness guard of check_car *)
check_car(h) ==
  /\ hPc[h] = "idle"
  /\ LET arrival == Arrival(loadPc # "returned",
                             regressor_model # None /\ classifier_model # None)
     IN
     IF ~are_models_loaded(regressor_model, classifier_model)
       THEN /\ last' = Response(503, arrival, 0, NoReg, NoCls, 0, NotInvoked)
            /\ UNCHANGED <<hPc, hArrival>>
       ELSE /\ hPc' = [hPc EXCEPT ![h] = "check_fraud"]
            /\ hArrival' = [hArrival EXCEPT ![h] = arrival]
            /\ last' = NoResponse
  /\ UNCHANGED <<regressor_model, classifier_model, fraud_threshold,
                 loadPc, classifier_dict, loadResult, hThreshold, hInput>>

(* check_fraud, its own guard, its reads of the registry and the derived   *)
(* age                                                                     *)
CheckFraudEnter(h) ==
  /\ hPc[h] = "check_fraud"
  /\ IF ~are_models_loaded(regressor_model, classifier_model)
       THEN /\ last' = Response(400, hArrival[h], 0, NoReg, NoCls, 0, NotInvoked)
            /\ hPc' = [hPc EXCEPT ![h] = "idle"]
            /\ hArrival' = [hArrival EXCEPT ![h] = NoArrival]
            /\ UNCHANGED <<hThreshold, hInput>>
       ELSE /\ hThreshold' = [hThreshold EXCEPT ![h] = get_threshold(fraud_threshold)]
            /\ \E year \in Years, current_year \in CurrentYears :
                 hInput' = [hInput EXCEPT ![h] = AgeInputs(current_year, year)]
            /\ hPc' = [hPc EXCEPT ![h] = "scoring"]
            /\ UNCHANGED hArrival
            /\ last' = NoResponse
  /\ UNCHANGED <<regressor_model, classifier_model, fraud_threshold,
                 loadPc, classifier_dict, loadResult>>

(* check_fraud steps 1 to 4 and the response, then check_car's except      *)
(* clauses                                                                 *)
CheckFraudScore(h) ==
  /\ hPc[h] = "scoring"
  /\ \E reported_km \in ReportedKms, reg \in RegOutcomes :
     \E cls \in IF reg.err = "none" THEN ClsOutcomes ELSE {NoCls} :
       LET out == check_fraud(reported_km, hThreshold[h], reg, cls)
           clsSeen == IF out.cls_invoked THEN cls ELSE NoCls
       IN  last' = Response(StatusOf(out.raised), hArrival[h], reported_km,
                            reg, clsSeen, hThreshold[h], out)
  /\ hPc' = [hPc EXCEPT ![h] = "idle"]
  /\ hThreshold' = [hThreshold EXCEPT ![h] = 0]
  /\ hInput' = [hInput EXCEPT ![h] = NoInput]
  /\ hArrival' = [hArrival EXCEPT ![h] = NoArrival]
  /\ UNCHANGED <<regressor_model, classifier_model, fraud_threshold,
                 loadPc, classifier_dict, loadResult>>

Next ==
  \/ LoadRegressor
  \/ LoadClassifier
  \/ ExtractPipeline
  \/ SetThreshold
  \/ health_check
  \/ \E h \in Handlers : check_car(h)
  \/ \E h \in Handlers : CheckFraudEnter(h)
  \/ \E h \in Handlers : CheckFraudScore(h)

Spec == Init /\ [][Next]_vars

----------------------------------------------------------------------------
(* Properties *)

Held == regressor_model # None /\ classifier_model # None

Scored == last.kind = "check" /\ last.has_result

(* The two explanation rules, stated on the inputs of the last request. *)
RatioFires == last.reported_km * 100 < 70 * (IF last.reg.km > 1 THEN last.reg.km ELSE 1)

DiffFires == last.reported_km - last.reg.km < -30000

(* C1: a scoring request that reaches check_car while the regressor or the *)
(* classifier is not held is answered 503; neither model is invoked and no *)
(* FraudCheckResult is produced.                                           *)
C1_NotReadyIsUnavailable ==
  (last.kind = "check" /\ ~last.ready_at_arrival)
    => /\ last.status = 503
       /\ ~last.reg_invoked
       /\ ~last.cls_invoked
       /\ ~last.has_result
       /\ last.body = NoBody

C1_Witness ==
  /\ last.kind = "check"
  /\ ~last.ready_at_arrival
  /\ last.status = 503
  /\ regressor_model # None
  /\ classifier_model = None

C3_FailedLoadNotReady ==
  (loadPc \notin {"L42", "L46", "L49", "L50"} /\ ~loadResult.success)
    => /\ loadPc = "returned"
       /\ loadResult.pc = "returned"
       /\ loadResult.message # "none"
       /\ ~Held

C3_Witness ==
  /\ loadPc = "returned"
  /\ ~loadResult.success
  /\ regressor_model # None
  /\ classifier_dict \in Bundles
  /\ ~classifier_dict.has_pipeline

(* C4: once load_models has succeeded no step changes the held regressor,  *)
(* the held classifier or the threshold; the registry stays ready and      *)
(* every scoring operation that starts reads the bundle's threshold.       *)
C4_ReadOnlyAfterLoad ==
  [][loadResult.success
       => /\ registry' = registry
          /\ loadResult'.success
          /\ regressor_model' # None /\ classifier_model' # None
          /\ \A h \in Handlers :
               (hPc[h] = "check_fraud" /\ hPc'[h] = "scoring")
                 => hThreshold'[h] = (IF classifier_dict.has_threshold
                                        THEN classifier_dict.threshold ELSE 500)]_vars

C4_Witness ==
  /\ loadResult.success
  /\ Scored
  /\ ~last.early
  /\ last.threshold = 700
  /\ fraud_threshold = 700

(* C5: get_threshold is 0.5 until load_models has succeeded; afterwards it *)
(* is the bundle's threshold when the bundle has one and 0.5 otherwise.    *)
C5_ThresholdDefaultUntilOverridden ==
  /\ ~loadResult.success => get_threshold(fraud_threshold) = 500
  /\ loadResult.success
       => get_threshold(fraud_threshold) =
            (IF classifier_dict.has_threshold THEN classifier_dict.threshold ELSE 500)

C5_Witness ==
  /\ loadResult.success
  /\ classifier_dict.has_threshold
  /\ get_threshold(fraud_threshold) = 300

(* C6: every returned result with is_suspicious = true has at least one    *)
(* reason.                                                                 *)
C6_ExplanationCompleteness ==
  (Scored /\ last.body.is_suspicious) => Len(last.body.reasons) >= 1

C6_Witness ==
  /\ Scored
  /\ last.body.is_suspicious
  /\ ~RatioFires
  /\ ~DiffFires
  /\ Len(last.body.reasons) = 1
  /\ last.body.reasons[1].kind = "generic"

(* C7: is_suspicious is true exactly when the probability is at least the  *)
(* threshold the request read, so equality is flagged.                     *)
C7_ThresholdInclusive ==
  Scored => (last.body.is_suspicious <=> last.cls.prob >= last.threshold)

C7_Witness ==
  /\ Scored
  /\ last.cls.prob = last.threshold
  /\ last.body.is_suspicious

(* C8: when smart_ratio < 0.70 and market_km_diff < -30000 both hold the   *)
(* reasons are exactly the ratio reason followed by the market reason,     *)
(* whatever is_suspicious is.                                              *)
C8_BothRulesInOrder ==
  (Scored /\ RatioFires /\ DiffFires)
    => /\ Len(last.body.reasons) = 2
       /\ last.body.reasons[1].kind = "ratio"
       /\ last.body.reasons[2].kind = "market"

C8_Witness ==
  /\ Scored
  /\ last.reported_km = 40000
  /\ last.reg.km = 150000
  /\ ~last.body.is_suspicious
  /\ Len(last.body.reasons) = 2
  /\ last.body.reasons[2].value = 110000

(* C9: a result that is not suspicious and for which neither the ratio     *)
(* rule nor the market-diff rule fires has no reasons.                     *)
C9_ExplanationEmptiness ==
  (Scored /\ ~last.body.is_suspicious /\ ~RatioFires /\ ~DiffFires)
    => last.body.reasons = <<>>

C9_Witness ==
  /\ Scored
  /\ last.reported_km = 92000
  /\ last.reg.km = 95000
  /\ ~last.body.is_suspicious
  /\ last.body.reasons = <<>>

Clamp(x, lo, hi) == IF x < lo THEN lo ELSE IF x > hi THEN hi ELSE x

(* C10: for every probability the classifier returns, also one outside     *)
(* [0, 1], the scoring operation yields fraud_score = round(p * 100)       *)
(* clamped into 0..100.                                                    *)
C10_ScoreClamped ==
  (last.kind = "check" /\ last.cls_invoked /\ last.cls.err = "none" /\ last.reg.km >= 0)
    => /\ last.has_result
       /\ last.body.fraud_score = Clamp(RoundScore(last.cls.prob), 0, 100)

(* C11: every result returned to the caller has expected_km >= 0; when the *)
(* regression step yields a negative expected_km no result is returned.    *)
C11_ExpectedKmNonNegative ==
  /\ Scored => last.body.expected_km >= 0
  /\ (last.kind = "check" /\ last.reg_invoked /\ last.reg.err = "none"
        /\ last.reg.km < 0) => ~last.has_result

C11_Witness ==
  /\ last.kind = "check"
  /\ last.reg_invoked
  /\ last.cls_invoked
  /\ last.reg.err = "none"
  /\ last.reg.km = -1
  /\ last.cls.err = "none"
  /\ last.cls.prob = 500
  /\ last.status = 400
  /\ ~last.has_result

(* C12: for every car year in 1900..2100 and every current year, the age   *)
(* handed to the regressor and the age handed to the classifier are >= 1,  *)
(* also when the manufacture year is the current year or a later one.      *)
C12_DerivedAgeAtLeastOne ==
  \A h \in Handlers :
    hPc[h] = "scoring"
      => /\ hInput[h].reg_age >= 1
         /\ hInput[h].cls_age >= 1
         /\ hInput[h].age_squared >= 1

C12_Witness ==
  \E h \in Handlers :
    /\ hPc[h] = "scoring"
    /\ hInput[h].year = 2100
    /\ hInput[h].reg_age = 1
    /\ hInput[h].cls_age = 1

(* round(n / d * 100): the nearest integer, a tie going to the even one. *)
RoundPct(n, d) ==
  LET q == (100 * n) \div d
      r == (100 * n) % d
  IN  IF 2 * r < d THEN q
      ELSE IF 2 * r > d THEN q + 1
      ELSE IF q % 2 = 0 THEN q ELSE q + 1

(* C13: when the ratio rule fires, the percentage cited in the ratio       *)
(* reason is round(smart_ratio * 100).                                     *)
C13_PercentageRounded ==
  (Scored /\ RatioFires)
    => /\ last.body.reasons[1].kind = "ratio"
       /\ last.body.reasons[1].value =
            RoundPct(last.reported_km, IF last.reg.km > 1 THEN last.reg.km ELSE 1)

(* The step of check_fraud that failed for the emitted response, "none"    *)
(* when every step succeeded.                                              *)
FailureOfLast ==
  IF last.reg.err # "none" THEN last.reg.err
  ELSE IF last.cls.err # "none" THEN last.cls.err
  ELSE IF \/ RoundScore(last.cls.prob) < 0
          \/ RoundScore(last.cls.prob) > 100
          \/ last.reg.km < 0 THEN "ValueError"
  ELSE "none"

AllOrNothing ==
  (last.kind = "check" /\ last.reg_invoked)
    => /\ FailureOfLast = "none"
            => /\ last.status = 200
               /\ last.has_result
               /\ DOMAIN last.body
                    = {"fraud_score", "is_suspicious", "expected_km", "reasons"}
               /\ last.body.fraud_score = RoundScore(last.cls.prob)
               /\ last.body.is_suspicious = (last.cls.prob >= last.threshold)
               /\ last.body.expected_km = last.reg.km
               /\ last.reg_invoked /\ last.cls_invoked
       /\ FailureOfLast = "ValueError"
            => last.status = 400 /\ ~last.has_result /\ last.body = NoBody
       /\ FailureOfLast \notin {"none", "ValueError"}
            => last.status = 500 /\ ~last.has_result /\ last.body = NoBody
       /\ last.reg.err # "none" => ~last.cls_invoked

(* C14: a scoring operation either returns a complete result, every step   *)
(* having succeeded, or the failing step's error reaches the boundary      *)
(* (ValueError as 400, anything else as 500) with no result; in both cases *)
(* the step leaves the registry as it was.                                 *)
C14_AllOrNothing ==
  [][/\ AllOrNothing'
     /\ \A h \in Handlers :
          (hPc[h] = "scoring" /\ hPc'[h] = "idle")
            => /\ registry' = registry
               /\ last'.kind = "check"
               /\ last'.reg_invoked]_vars

C14_Witness ==
  /\ last.kind = "check"
  /\ last.reg_invoked
  /\ last.cls_invoked
  /\ last.cls.err = "Exception"
  /\ last.status = 500
  /\ ~last.has_result
  /\ Held

====
